---- MODULE Spec2Model ----
(***************************************************************************)
(* Model of src/codeReview/code-review-exercise-1.tsx: the useOrders hook  *)
(* (order list, loading flag, error message, the promise chain of          *)
(* fetchOrders and the effect keyed on orders.length) and the OrdersTable  *)
(* component (filter criteria, the filteredOrders and totalRevenue memos). *)
(*                                                                         *)
(* JavaScript strings are sequences of one-character strings; the value    *)
(* undefined of an optional string is the one-element sequence Undefined.  *)
(* A state update and the re-render it causes are one step: a memo is      *)
(* recomputed in the step that changes one of its dependencies.  The       *)
(* passive effect of a render is a step of its own, and it runs before the *)
(* next render that changes orders.                                        *)
(***************************************************************************)
EXTENDS Integers, Sequences, FiniteSets

\* Number of calls of fetch("/api/orders") explored.
MaxRequests == 3

Ids == 1..MaxRequests

-----------------------------------------------------------------------------
(* Values *)

Undefined == <<"undefined">>

FailedMessage == "Failed to load orders"

NoError == "undefined"

Alice == <<"A", "l", "i", "c", "e">>
Bob == <<"B", "o", "b">>
Bobby == <<"b", "o", "b", "b", "y">>

Jan01 == <<"2", "0", "2", "4", "-", "0", "1", "-", "0", "1">>
Jan02 == <<"2", "0", "2", "4", "-", "0", "1", "-", "0", "2">>

Order1 == [id |-> 1, customerName |-> Alice, total |-> 10, status |-> "paid", createdAt |-> Jan01]
Order2 == [id |-> 2, customerName |-> Bob, total |-> 20, status |-> "pending", createdAt |-> Jan02]
Order3 == [id |-> 3, customerName |-> Bobby, total |-> 15, status |-> "paid", createdAt |-> Jan02]

\* Bodies that res.json() resolves to when they are arrays of orders.
OrderLists == { <<>>, <<Order1, Order2>>, <<Order2, Order3>>, <<Order3, Order1, Order2>> }

\* Values typed into the search box.
SearchInputs == { <<"b", "o">> }

\* Options chosen in the status select.
StatusInputs == { "all", "paid" }

\* Values typed into the min-total box.
MinTotalInputs == { <<>>, <<"1", "5">>, <<"a", "b">> }

\* Longest order list a response holds in the specification of the query.
QueryMaxLen == 3

Albo == <<"A", "L", "B", "O">>
Jan03 == <<"2", "0", "2", "4", "-", "0", "1", "-", "0", "3">>
Order4 == [id |-> 4, customerName |-> Albo, total |-> 0, status |-> "cancelled", createdAt |-> Jan03]

\* Options of the status select.
StatusOptions == { "all", "pending", "paid", "shipped", "cancelled" }

\* Search texts and min-total texts typed, in the specification of the query.
QuerySearchInputs == { <<>>, <<"b", "o">>, <<"A", "L">>, <<"B", "O", "B">> }
QueryMinTotalInputs == { <<>>, <<"0">>, <<"1", "5">>, <<"2", "0">>, <<" ">>, <<"a", "b">> }

-----------------------------------------------------------------------------
(* String and number primitives of JavaScript used by the component *)

Digits == { "0", "1", "2", "3", "4", "5", "6", "7", "8", "9" }

DigitValue(c) ==
    CASE c = "0" -> 0 [] c = "1" -> 1 [] c = "2" -> 2 [] c = "3" -> 3
      [] c = "4" -> 4 [] c = "5" -> 5 [] c = "6" -> 6 [] c = "7" -> 7
      [] c = "8" -> 8 [] c = "9" -> 9

\* UTF-16 code unit of the characters that occur in createdAt.
CodeUnit(c) == IF c = "-" THEN 45 ELSE 48 + DigitValue(c)

\* String.prototype.toLowerCase, on the letters that occur in the model.
LowerChar(c) ==
    CASE c = "A" -> "a" [] c = "B" -> "b" [] c = "L" -> "l" [] c = "O" -> "o"
      [] OTHER -> c

toLowerCase(s) == [i \in 1..Len(s) |-> LowerChar(s[i])]

\* String.prototype.includes
includes(s, t) ==
    \E i \in 0..(Len(s) - Len(t)) : SubSeq(s, i + 1, i + Len(t)) = t

\* ToBoolean of an optional string: undefined and "" are falsy.
Truthy(s) == s # Undefined /\ s # <<>>

RECURSIVE TrimStart(_)
TrimStart(s) == IF s # <<>> /\ Head(s) = " " THEN TrimStart(Tail(s)) ELSE s

RECURSIVE TrimEnd(_)
TrimEnd(s) ==
    IF s # <<>> /\ s[Len(s)] = " " THEN TrimEnd(SubSeq(s, 1, Len(s) - 1)) ELSE s

RECURSIVE DecimalValue(_, _)
DecimalValue(s, acc) ==
    IF s = <<>> THEN acc ELSE DecimalValue(Tail(s), 10 * acc + DigitValue(Head(s)))

\* A JavaScript number: NaN, or the value v.
NaN == [nan |-> TRUE, v |-> 0]

\* Number(x) of an x that is a number already (order.total).
NumberOfNumber(n) == [nan |-> FALSE, v |-> n]

\* Number(string): white space is trimmed, the empty string is 0, a run of
\* decimal digits is its value, anything else is NaN.
Number(s) ==
    LET t == TrimEnd(TrimStart(s)) IN
    IF t = <<>> THEN NumberOfNumber(0)
    ELSE IF \A i \in 1..Len(t) : t[i] \in Digits
         THEN NumberOfNumber(DecimalValue(t, 0))
    ELSE NaN

isNaN(n) == n.nan

\* a < b on numbers: false when either operand is NaN.
NumLess(a, b) == IF isNaN(a) \/ isNaN(b) THEN FALSE ELSE a.v < b.v

\* a > b on strings: comparison of the code units, left to right.
RECURSIVE StrGreater(_, _)
StrGreater(a, b) ==
    IF a = <<>> THEN FALSE
    ELSE IF b = <<>> THEN TRUE
    ELSE IF CodeUnit(Head(a)) # CodeUnit(Head(b))
         THEN CodeUnit(Head(a)) > CodeUnit(Head(b))
    ELSE StrGreater(Tail(a), Tail(b))

-----------------------------------------------------------------------------
(* OrdersTable: the filter, the sort and the sum of lines 60-85 *)

\* Mutant of FilterPredicate: the search is case-sensitive (the search text
\* is not lower-cased).
FilterPredicateCaseSensitive(order, s, st, m) ==
    /\ ~(Truthy(s) /\ ~includes(toLowerCase(order.customerName), s))
    /\ ~(st # "all" /\ order.status # st)
    /\ ~(Truthy(m) /\ NumLess(NumberOfNumber(order.total), Number(m)))

\* The callback of orders.filter: search, statusFilter and minTotal are the
\* component's criteria state.
FilterPredicate(order, s, st, m) ==
    /\ ~(Truthy(s) /\ ~includes(toLowerCase(order.customerName), toLowerCase(s)))
    /\ ~(st # "all" /\ order.status # st)
    /\ ~(Truthy(m) /\ NumLess(NumberOfNumber(order.total), Number(m)))

\* Mutant of compare: the two results are exchanged (oldest first).
compareOldestFirst(a, b) == IF StrGreater(a.createdAt, b.createdAt) THEN 1 ELSE -1

\* The callback of Array.prototype.sort ("newest first").
compare(a, b) == IF StrGreater(a.createdAt, b.createdAt) THEN -1 ELSE 1

PermutationsOf(s) ==
    { [i \in 1..Len(s) |-> s[p[i]]] :
        p \in { q \in [1..Len(s) -> 1..Len(s)] :
                  \A i, j \in 1..Len(s) : q[i] = q[j] => i = j } }

\* Array.prototype.sort with compare.  Two elements that compare orders in
\* one way only end in that order; where compare(a, b) and compare(b, a) are
\* both positive the result is implementation-defined, so either order is
\* an outcome.
SortOutcomes(s) ==
    { t \in PermutationsOf(s) :
        \A i \in 1..(Len(t) - 1) :
            compare(t[i], t[i + 1]) < 0 \/ compare(t[i + 1], t[i]) > 0 }

\* The values the filteredOrders memo can take when it is computed.
FilteredOrdersOutcomes(os, s, st, m) ==
    SortOutcomes(SelectSeq(os, LAMBDA order : FilterPredicate(order, s, st, m)))

RECURSIVE ReduceTotal(_, _, _)
ReduceTotal(f, i, sum) ==
    IF i > Len(f) THEN sum ELSE ReduceTotal(f, i + 1, sum + f[i].total)

\* Mutant of ComputeTotalRevenue: reduce without its initial value, the
\* first order standing for the accumulator.
ComputeTotalRevenueNoInitial(f) == ReduceTotal(f, 2, 0)

\* filteredOrders.reduce((sum, order) => sum + order.total, 0)
ComputeTotalRevenue(f) == ReduceTotal(f, 1, 0)

-----------------------------------------------------------------------------
(* State *)

VARIABLES
    orders,          \* useOrders: useState<Order[]>([])
    loading,         \* useOrders: useState(false)
    error,           \* useOrders: useState<string>()
    search,          \* OrdersTable: useState<string>()
    statusFilter,    \* OrdersTable: useState("all")
    minTotal,        \* OrdersTable: useState("")
    filteredOrders,  \* value of the useMemo of lines 60-81
    totalRevenue,    \* value of the useMemo of lines 83-85
    effectPending,   \* the effect of lines 42-45 is scheduled and has not run
    pc,              \* per request: "unissued", "pending", "resolved",
                     \* "rejected" (settled, finally not yet run), "done"
    issued,          \* number of fetch("/api/orders") calls made
    refreshCalls,    \* number of clicks on the Refresh button
    diag,            \* number of console.error calls made
    crashed,         \* a render threw: the component tree is unmounted
    lastSettled,     \* history: the request whose then/catch callback ran
                     \* last, and what it settled with
    newestSettled    \* history: the latest-issued request among those whose
                     \* then/catch callback has run, and what it settled with

vars == << orders, loading, error, search, statusFilter, minTotal,
           filteredOrders, totalRevenue, effectPending, pc, issued,
           refreshCalls, diag, crashed, lastSettled, newestSettled >>

storeVars == << orders, loading, error, effectPending, pc, issued,
                refreshCalls, diag, crashed, lastSettled, newestSettled >>

NoneSettled == [id |-> 0, kind |-> "none", data |-> <<>>]

\* The state after the first render of OrdersTable: its effect is scheduled.
Init ==
    /\ orders = <<>>
    /\ loading = FALSE
    /\ error = NoError
    /\ search = Undefined
    /\ statusFilter = "all"
    /\ minTotal = <<>>
    /\ filteredOrders = <<>>
    /\ totalRevenue = 0
    /\ effectPending = TRUE
    /\ pc = [r \in Ids |-> "unissued"]
    /\ issued = 0
    /\ refreshCalls = 0
    /\ diag = 0
    /\ crashed = FALSE
    /\ lastSettled = NoneSettled
    /\ newestSettled = NoneSettled

-----------------------------------------------------------------------------
(* useOrders *)

\* Bookkeeping of the history variables when request r settles with s.
Settle(s) ==
    /\ lastSettled' = s
    /\ newestSettled' = IF s.id > newestSettled.id THEN s ELSE newestSettled

\* fetchOrders, up to the call of fetch: setLoading(true) and a new request.
fetchOrders ==
    /\ issued < MaxRequests
    /\ issued' = issued + 1
    /\ pc' = [pc EXCEPT ![issued + 1] = "pending"]
    /\ loading' = TRUE

\* The effect with dependencies [orders.length].
useEffect ==
    /\ ~crashed
    /\ effectPending
    /\ fetchOrders
    /\ effectPending' = FALSE
    /\ UNCHANGED << orders, error, search, statusFilter, minTotal, filteredOrders,
                    totalRevenue, refreshCalls, diag, crashed, lastSettled, newestSettled >>

\* onClick of the Refresh button, which is disabled while loading.
refresh ==
    /\ ~crashed
    /\ ~loading
    /\ fetchOrders
    /\ refreshCalls' = refreshCalls + 1
    /\ UNCHANGED << orders, error, search, statusFilter, minTotal, filteredOrders,
                    totalRevenue, effectPending, diag, crashed, lastSettled, newestSettled >>

\* Mutant of ThenCallbackWith: a completion is applied only when its request
\* is the latest issued ("last-issued-wins").
ThenCallbackLastIssuedWins(r, bodies) ==
    /\ ~crashed
    /\ pc[r] = "pending"
    /\ ~effectPending
    /\ \E data \in bodies :
        /\ Settle([id |-> r, kind |-> "ok", data |-> data])
        /\ IF r = issued
             THEN /\ orders' = data
                  /\ error' = NoError
                  /\ effectPending' = (Len(data) # Len(orders))
                  /\ \E f \in FilteredOrdersOutcomes(data, search, statusFilter, minTotal) :
                      /\ filteredOrders' = f
                      /\ totalRevenue' = ComputeTotalRevenue(f)
             ELSE UNCHANGED << orders, error, effectPending, filteredOrders,
                               totalRevenue >>
    /\ pc' = [pc EXCEPT ![r] = "resolved"]
    /\ UNCHANGED << loading, search, statusFilter, minTotal, issued, refreshCalls,
                    diag, crashed >>

\* Mutant of ThenCallbackWith: setError(undefined) is left out.
ThenCallbackKeepsError(r, bodies) ==
    /\ ~crashed
    /\ pc[r] = "pending"
    /\ ~effectPending
    /\ \E data \in bodies :
        /\ orders' = data
        /\ Settle([id |-> r, kind |-> "ok", data |-> data])
        /\ effectPending' = (Len(data) # Len(orders))
        /\ \E f \in FilteredOrdersOutcomes(data, search, statusFilter, minTotal) :
            /\ filteredOrders' = f
            /\ totalRevenue' = ComputeTotalRevenue(f)
    /\ pc' = [pc EXCEPT ![r] = "resolved"]
    /\ UNCHANGED << loading, error, search, statusFilter, minTotal, issued,
                    refreshCalls, diag, crashed >>

\* Mutant of ThenCallbackWith: the memo is computed from the orders of the
\* previous render (a stale closure).
ThenCallbackStaleMemo(r, bodies) ==
    /\ ~crashed
    /\ pc[r] = "pending"
    /\ ~effectPending
    /\ \E data \in bodies :
        /\ orders' = data
        /\ Settle([id |-> r, kind |-> "ok", data |-> data])
        /\ effectPending' = (Len(data) # Len(orders))
    /\ \E f \in FilteredOrdersOutcomes(orders, search, statusFilter, minTotal) :
        /\ filteredOrders' = f
        /\ totalRevenue' = ComputeTotalRevenue(f)
    /\ error' = NoError
    /\ pc' = [pc EXCEPT ![r] = "resolved"]
    /\ UNCHANGED << loading, search, statusFilter, minTotal, issued, refreshCalls,
                    diag, crashed >>

\* Mutant of ThenCallbackWith: orders.sort(...) is called on the state array
\* itself, before the filter, so the stored list is reordered.
ThenCallbackSortsInPlace(r, bodies) ==
    /\ ~crashed
    /\ pc[r] = "pending"
    /\ ~effectPending
    /\ \E data \in bodies :
        /\ Settle([id |-> r, kind |-> "ok", data |-> data])
        /\ effectPending' = (Len(data) # Len(orders))
        /\ \E sorted \in SortOutcomes(data) :
            /\ orders' = sorted
            /\ filteredOrders' =
                  SelectSeq(sorted, LAMBDA order :
                                FilterPredicate(order, search, statusFilter, minTotal))
            /\ totalRevenue' = ComputeTotalRevenue(filteredOrders')
    /\ error' = NoError
    /\ pc' = [pc EXCEPT ![r] = "resolved"]
    /\ UNCHANGED << loading, search, statusFilter, minTotal, issued, refreshCalls,
                    diag, crashed >>

\* .then((data) => { setOrders(data); setError(undefined); }) with data an
\* array of orders out of bodies, and the render: both memos are recomputed,
\* and the effect is scheduled when orders.length differs from the previous
\* render's.
ThenCallbackWith(r, bodies) ==
    /\ ~crashed
    /\ pc[r] = "pending"
    /\ ~effectPending
    /\ \E data \in bodies :
        /\ orders' = data
        /\ Settle([id |-> r, kind |-> "ok", data |-> data])
        /\ effectPending' = (Len(data) # Len(orders))
        /\ \E f \in FilteredOrdersOutcomes(data, search, statusFilter, minTotal) :
            /\ filteredOrders' = f
            /\ totalRevenue' = ComputeTotalRevenue(f)
    /\ error' = NoError
    /\ pc' = [pc EXCEPT ![r] = "resolved"]
    /\ UNCHANGED << loading, search, statusFilter, minTotal, issued, refreshCalls,
                    diag, crashed >>

ThenCallback(r) == ThenCallbackWith(r, OrderLists)

\* The same callback when res.json() resolves to a value that is not an
\* array of orders: the render of setOrders(data) throws (orders.filter,
\* order.total.toFixed) and React unmounts the tree.  Where the error is
\* rethrown into the promise chain, the catch callback logs it.
ThenMalformed(r) ==
    /\ ~crashed
    /\ pc[r] = "pending"
    /\ ~effectPending
    /\ crashed' = TRUE
    /\ pc' = [pc EXCEPT ![r] = "done"]
    /\ \E n \in {0, 1} : diag' = diag + n
    /\ Settle([id |-> r, kind |-> "malformed", data |-> <<>>])
    /\ UNCHANGED << orders, loading, error, search, statusFilter, minTotal,
                    filteredOrders, totalRevenue, effectPending, issued,
                    refreshCalls >>

\* Mutant of CatchCallback: the failure also empties the list (setOrders([])).
CatchCallbackClearsOrders(r) ==
    /\ ~crashed
    /\ pc[r] = "pending"
    /\ diag' = diag + 1
    /\ error' = FailedMessage
    /\ orders' = <<>>
    /\ filteredOrders' = <<>>
    /\ totalRevenue' = 0
    /\ effectPending' = (effectPending \/ Len(orders) # 0)
    /\ pc' = [pc EXCEPT ![r] = "rejected"]
    /\ Settle([id |-> r, kind |-> "reject", data |-> <<>>])
    /\ UNCHANGED << loading, search, statusFilter, minTotal, issued, refreshCalls,
                    crashed >>

\* Mutant of CatchCallback: the error is swallowed without console.error.
CatchCallbackSilent(r) ==
    /\ ~crashed
    /\ pc[r] = "pending"
    /\ error' = FailedMessage
    /\ pc' = [pc EXCEPT ![r] = "rejected"]
    /\ Settle([id |-> r, kind |-> "reject", data |-> <<>>])
    /\ UNCHANGED << orders, loading, search, statusFilter, minTotal, filteredOrders,
                    totalRevenue, effectPending, issued, refreshCalls, diag, crashed >>

\* Mutant of CatchCallback: the handler retries by calling fetchOrders.
CatchCallbackRetries(r) ==
    /\ ~crashed
    /\ pc[r] = "pending"
    /\ diag' = diag + 1
    /\ error' = FailedMessage
    /\ Settle([id |-> r, kind |-> "reject", data |-> <<>>])
    /\ IF issued < MaxRequests
         THEN /\ issued' = issued + 1
              /\ pc' = [pc EXCEPT ![r] = "rejected", ![issued + 1] = "pending"]
              /\ loading' = TRUE
         ELSE /\ pc' = [pc EXCEPT ![r] = "rejected"]
              /\ UNCHANGED << issued, loading >>
    /\ UNCHANGED << orders, search, statusFilter, minTotal, filteredOrders,
                    totalRevenue, effectPending, refreshCalls, crashed >>

\* .catch((err) => { console.error(err); setError("Failed to load orders"); })
\* when fetch or res.json() rejects.
CatchCallback(r) ==
    /\ ~crashed
    /\ pc[r] = "pending"
    /\ diag' = diag + 1
    /\ error' = FailedMessage
    /\ pc' = [pc EXCEPT ![r] = "rejected"]
    /\ Settle([id |-> r, kind |-> "reject", data |-> <<>>])
    /\ UNCHANGED << orders, loading, search, statusFilter, minTotal, filteredOrders,
                    totalRevenue, effectPending, issued, refreshCalls, crashed >>

\* .finally(() => { setLoading(false); })
FinallyCallback(r) ==
    /\ ~crashed
    /\ pc[r] \in {"resolved", "rejected"}
    /\ loading' = FALSE
    /\ pc' = [pc EXCEPT ![r] = "done"]
    /\ UNCHANGED << orders, error, search, statusFilter, minTotal, filteredOrders,
                    totalRevenue, effectPending, issued, refreshCalls, diag,
                    crashed, lastSettled, newestSettled >>

-----------------------------------------------------------------------------
(* OrdersTable: the criteria inputs.  The memo of filteredOrders depends on *)
(* [orders] only, so these renders keep its value.                          *)

\* onChange of the search box: setSearch(e.target.value)
setSearch(value) ==
    /\ ~crashed
    /\ search' = value
    /\ UNCHANGED << storeVars, statusFilter, minTotal, filteredOrders, totalRevenue >>

\* onChange of the status select: setStatusFilter(e.target.value)
setStatusFilter(value) ==
    /\ ~crashed
    /\ statusFilter' = value
    /\ UNCHANGED << storeVars, search, minTotal, filteredOrders, totalRevenue >>

\* Mutant of handleMinTotalChange: the value typed is stored without the
\* isNaN check.
handleMinTotalChangeUnchecked(value) ==
    /\ ~crashed
    /\ minTotal' = value
    /\ UNCHANGED << storeVars, search, statusFilter, filteredOrders, totalRevenue >>

\* onChange of the min-total box
handleMinTotalChange(value) ==
    /\ ~crashed
    /\ IF value = <<>>
         THEN minTotal' = <<>>
         ELSE IF ~isNaN(Number(value))
                THEN minTotal' = value
                ELSE minTotal' = minTotal
    /\ UNCHANGED << storeVars, search, statusFilter, filteredOrders, totalRevenue >>

-----------------------------------------------------------------------------

Next ==
    \/ useEffect
    \/ refresh
    \/ \E r \in Ids : ThenCallback(r)
    \/ \E r \in Ids : ThenMalformed(r)
    \/ \E r \in Ids : CatchCallback(r)
    \/ \E r \in Ids : FinallyCallback(r)
    \/ \E value \in SearchInputs : setSearch(value)
    \/ \E value \in StatusInputs : setStatusFilter(value)
    \/ \E value \in MinTotalInputs : handleMinTotalChange(value)

Spec == Init /\ [][Next]_vars

-----------------------------------------------------------------------------
(* Properties of the load state *)

\* A promise chain is between its then/catch callback and its finally.
MidChain == \E r \in Ids : pc[r] \in {"resolved", "rejected"}

InFlight == { r \in Ids : pc[r] \in {"pending", "resolved", "rejected"} }

\* The load states of the store, read off the hook's three fields.
LoadingActive == loading
FailedActive == error # NoError
ReadyActive == ~loading /\ error = NoError /\ lastSettled.kind # "none"
IdleActive == ~loading /\ error = NoError /\ lastSettled.kind = "none"

ActiveLoadStates ==
    { n \in {"Idle", "Loading", "Ready", "Failed"} :
        \/ n = "Idle" /\ IdleActive
        \/ n = "Loading" /\ LoadingActive
        \/ n = "Ready" /\ ReadyActive
        \/ n = "Failed" /\ FailedActive }

\* C1: whenever no promise chain is between two of its callbacks, exactly one
\* of Idle, Loading, Ready and Failed is active; in particular the loading
\* flag and the error message are not both set.
C1_ExactlyOneLoadState ==
    ~MidChain => /\ Cardinality(ActiveLoadStates) = 1
                 /\ ~(loading /\ error # NoError)

\* C2: the request whose response was handled last determines the state,
\* whatever its position in the order of issue: after a success the orders
\* are its data and the error is cleared, after a rejection the error is the
\* failure message.
C2_LastResolvedWins ==
    /\ lastSettled.kind = "ok" =>
          orders = lastSettled.data /\ error = NoError
    /\ lastSettled.kind = "reject" => error = FailedMessage

\* C2 witness: every request is finished, a request issued later settled
\* earlier with other data, and the orders are those of the older request.
C2_OlderOverwritesNewer ==
    /\ InFlight = {}
    /\ lastSettled.kind = "ok"
    /\ newestSettled.kind = "ok"
    /\ lastSettled.id < newestSettled.id
    /\ lastSettled.data # newestSettled.data
    /\ orders = lastSettled.data
    /\ orders # newestSettled.data

\* C3: the success callback of a request leaves the orders equal to the data
\* it returned and the error cleared, whatever the error was before; its
\* finally callback leaves loading false, and the state is then Ready with
\* that data unless another response was handled in between.
C3_SuccessStep ==
    \A r \in Ids :
        /\ (pc[r] = "pending" /\ pc'[r] = "resolved") =>
              /\ lastSettled'.id = r
              /\ orders' = lastSettled'.data
              /\ error' = NoError
        /\ (pc[r] = "resolved" /\ pc'[r] = "done") =>
              /\ loading' = FALSE
              /\ lastSettled.id = r =>
                    orders' = lastSettled.data /\ error' = NoError

C3_SuccessClearsError == [][C3_SuccessStep]_vars

\* C3 witness: the startup load was rejected (Failed), Refresh was clicked,
\* and the second load succeeded: Ready, error cleared.
C3_ReadyAfterFailed ==
    /\ issued = 2
    /\ refreshCalls = 1
    /\ diag = 1
    /\ ~crashed
    /\ InFlight = {}
    /\ lastSettled.id = 2
    /\ lastSettled.kind = "ok"
    /\ orders = lastSettled.data
    /\ orders # <<>>
    /\ error = NoError
    /\ ~loading

\* C4: the catch callback of a rejected load makes exactly one record and
\* sets the static message; its finally callback makes no further record
\* and leaves loading false, with the message still set unless another
\* response was handled in between; the component is not torn down.
C4_FailureStep ==
    \A r \in Ids :
        /\ (pc[r] = "pending" /\ pc'[r] = "rejected") =>
              /\ diag' = diag + 1
              /\ error' = FailedMessage
              /\ ~crashed'
        /\ (pc[r] = "rejected" /\ pc'[r] = "done") =>
              /\ diag' = diag
              /\ loading' = FALSE
              /\ ~crashed'
              /\ lastSettled.id = r => error' = FailedMessage

C4_FailureCaughtAndLogged == [][C4_FailureStep]_vars

\* C4 witness: the only load was rejected and has finished: Failed.
C4_FailedOnce ==
    /\ issued = 1
    /\ pc[1] = "done"
    /\ lastSettled.kind = "reject"
    /\ diag = 1
    /\ error = FailedMessage
    /\ ~loading
    /\ ~crashed

\* The store is Failed and no request is in flight or scheduled.
QuiescentFailed ==
    /\ error # NoError
    /\ InFlight = {}
    /\ ~effectPending
    /\ ~crashed

\* C5: the callbacks of a rejected load neither issue a request nor schedule
\* one (the order count the effect is keyed on is unchanged), and from a
\* Failed state with nothing in flight or scheduled the number of issued
\* requests grows only by a click on Refresh.
C5_NoRetryStep ==
    /\ \A r \in Ids :
          (\/ pc[r] = "pending" /\ pc'[r] = "rejected"
           \/ pc[r] = "rejected" /\ pc'[r] = "done") =>
              /\ issued' = issued
              /\ effectPending' = effectPending
              /\ Len(orders') = Len(orders)
    /\ (QuiescentFailed /\ issued' # issued) =>
          /\ refreshCalls' = refreshCalls + 1
          /\ issued' = issued + 1

C5_NoAutomaticRetry == [][C5_NoRetryStep]_vars

\* C5 witness: Failed, nothing in flight or scheduled, and a further
\* request could still be issued.
C5_FailedAndIdle == QuiescentFailed /\ issued < MaxRequests /\ diag > 0

\* C6: every request is the startup load or a click on Refresh: once the
\* startup effect has run, issued = 1 + refreshCalls.
C6_OnlyStartupAndRefresh ==
    /\ issued <= 1 + refreshCalls
    /\ ~effectPending => issued = 1 + refreshCalls

\* C7: while a request is unresolved the loading flag is true.
C7_LoadingWhileUnresolved ==
    (\E r \in Ids : pc[r] = "pending") /\ ~crashed => loading

-----------------------------------------------------------------------------
(* The query on its own: the first load is in flight, the criteria have     *)
(* been typed, and the load resolves with any list of up to QueryMaxLen     *)
(* distinct orders.                                                         *)

QueryOrderLists ==
    UNION { { q \in [1..n -> {Order1, Order2, Order3, Order4}] :
                \A i, j \in 1..n : q[i] = q[j] => i = j } : n \in 0..QueryMaxLen }

\* The min-total texts that handleMinTotalChange stores.
QueryMinTotals == { v \in QueryMinTotalInputs : v = <<>> \/ ~isNaN(Number(v)) }

InitQuery ==
    /\ orders = <<>>
    /\ loading = TRUE
    /\ error = NoError
    /\ search \in QuerySearchInputs \cup {Undefined}
    /\ statusFilter \in StatusOptions
    /\ minTotal \in QueryMinTotals
    /\ filteredOrders = <<>>
    /\ totalRevenue = 0
    /\ effectPending = FALSE
    /\ pc = [r \in Ids |-> IF r = 1 THEN "pending" ELSE "unissued"]
    /\ issued = 1
    /\ refreshCalls = 0
    /\ diag = 0
    /\ crashed = FALSE
    /\ lastSettled = NoneSettled
    /\ newestSettled = NoneSettled

NextQuery ==
    \/ \E r \in Ids : ThenCallbackWith(r, QueryOrderLists)
    \/ \E r \in Ids : FinallyCallback(r)

SpecQuery == InitQuery /\ [][NextQuery]_vars

-----------------------------------------------------------------------------
(* Properties of the query *)

Range(f) == { f[i] : i \in DOMAIN f }

SameLetter(a, b) == LowerChar(a) = LowerChar(b)

\* name contains text, letter case ignored.
ContainsIgnoringCase(name, text) ==
    \E i \in 0..(Len(name) - Len(text)) :
        \A k \in 1..Len(text) : SameLetter(name[i + k], text[k])

\* The three filter rules as the specification states them.
PassesCriteria(order, s, st, m) ==
    /\ (s # Undefined /\ s # <<>>) => ContainsIgnoringCase(order.customerName, s)
    /\ st # "all" => order.status = st
    /\ (m # <<>> /\ ~isNaN(Number(m)) /\ Number(m).v # 0) => order.total >= Number(m).v

\* C8: the visible orders computed from a loaded list and the criteria are
\* exactly the orders of the list that pass the three filter rules.
C8_VisibleAreThePassingOrders ==
    lastSettled.kind = "ok" =>
        /\ Range(filteredOrders) =
              { o \in Range(orders) : PassesCriteria(o, search, statusFilter, minTotal) }
        /\ Len(filteredOrders) = Cardinality(Range(filteredOrders))

\* C8 witness: the three criteria are set, some order passes them and some
\* order does not.
C8_AllThreeCriteria ==
    /\ lastSettled.kind = "ok"
    /\ Truthy(search)
    /\ statusFilter # "all"
    /\ Number(minTotal).v > 0
    /\ filteredOrders # <<>>
    /\ Len(filteredOrders) < Len(orders)

\* C9: the visible orders are the result of filtering the current orders by
\* the current criteria.
C9_VisibleFollowCriteria ==
    ~crashed =>
        Range(filteredOrders) =
            { o \in Range(orders) : PassesCriteria(o, search, statusFilter, minTotal) }

RECURSIVE SumOfTotals(_, _)
SumOfTotals(f, I) ==
    IF I = {} THEN 0
    ELSE LET i == CHOOSE x \in I : TRUE IN f[i].total + SumOfTotals(f, I \ {i})

C11_VisibleFromLatestLoad ==
    /\ Range(filteredOrders) \subseteq Range(orders)
    /\ lastSettled.kind = "ok" => Range(filteredOrders) \subseteq Range(lastSettled.data)

\* C11 witness: a list holding Order1 was replaced by a list without it, and
\* orders are visible.
C11_ListReplaced ==
    /\ lastSettled.kind = "ok"
    /\ newestSettled.kind = "ok"
    /\ lastSettled.id # newestSettled.id
    /\ Order1 \in Range(newestSettled.data)
    /\ Order1 \notin Range(orders)
    /\ filteredOrders # <<>>

\* C12: every two adjacent visible orders are in descending order of
\* createdAt, compared as strings.
C12_SortedNewestFirst ==
    \A i \in 1..(Len(filteredOrders) - 1) :
        ~StrGreater(filteredOrders[i + 1].createdAt, filteredOrders[i].createdAt)

\* C12 witness: three orders are visible, the first newer than the last,
\* and the list that was loaded is in another order.
C12_ThreeSorted ==
    /\ Len(filteredOrders) = 3
    /\ StrGreater(filteredOrders[1].createdAt, filteredOrders[3].createdAt)
    /\ filteredOrders # orders

\* Position of order o in the sequence f.
IndexOf(f, o) == CHOOSE i \in DOMAIN f : f[i] = o

\* C13: for two orders of the list with equal createdAt the comparator
\* returns 0, it is never positive both ways round, and the two are visible
\* in their relative order in the list.
C13_TiesCompareEqual ==
    lastSettled.kind = "ok" =>
        \A i, j \in DOMAIN orders :
            (i < j /\ orders[i].createdAt = orders[j].createdAt) =>
                /\ compare(orders[i], orders[j]) = 0
                /\ ~(compare(orders[i], orders[j]) > 0 /\ compare(orders[j], orders[i]) > 0)
                /\ (orders[i] \in Range(filteredOrders) /\ orders[j] \in Range(filteredOrders)) =>
                      IndexOf(filteredOrders, orders[i]) < IndexOf(filteredOrders, orders[j])

\* C14: after the query result is computed, the orders list is the loaded
\* list, element by element in the order it was returned.
C14_OrdersNotMutated ==
    lastSettled.kind = "ok" =>
        /\ Len(orders) = Len(lastSettled.data)
        /\ \A i \in DOMAIN orders : orders[i] = lastSettled.data[i]

\* C14 witness: the sort put the visible orders in another order than the
\* loaded list, which is kept as returned.
C14_SortedCopy ==
    /\ lastSettled.kind = "ok"
    /\ Len(filteredOrders) = Len(orders)
    /\ Len(orders) >= 2
    /\ filteredOrders # orders
    /\ orders = lastSettled.data

------------------------------------------------------------------------------
(* The criteria inputs alone, with every text drawn *)

\* Texts typed into the min-total box: the texts of the query, a number
\* after a space, and two texts that hold a number and something else.
CriteriaMinTotalInputs ==
    QueryMinTotalInputs \cup { <<" ", "5">>, <<"1", " ", "5">>, <<"5", "a">> }

NextCriteria ==
    \/ \E value \in QuerySearchInputs : setSearch(value)
    \/ \E value \in StatusOptions : setStatusFilter(value)
    \/ \E value \in CriteriaMinTotalInputs : handleMinTotalChange(value)

SpecCriteria == Init /\ [][NextCriteria]_vars

------------------------------------------------------------------------------
(* What the component renders *)

\* {loading && <div>Loading...</div>}
LoadingShown == ~crashed /\ loading

\* {error && <div className="orders-page__error">{error}</div>}
ErrorShown == ~crashed /\ error # NoError

\* {!loading && filteredOrders.length === 0 && (... No orders found ...)}
NoOrdersFoundShown == ~crashed /\ ~loading /\ Len(filteredOrders) = 0

\* C16: after a response that is not a list of orders, the store is Failed
\* with the static message and the component still renders the last list.
C16_MalformedIsLoadFailure ==
    lastSettled.kind = "malformed" =>
        /\ error = FailedMessage
        /\ ~crashed

\* C17: "No orders found" is shown only when no order is visible, and
\* never together with the loading indicator or the error message.
C17_NoOrdersFoundAlone ==
    NoOrdersFoundShown =>
        /\ Len(filteredOrders) = 0
        /\ ~LoadingShown
        /\ ~ErrorShown

\* C18: the catch and finally steps of a failed load leave the orders list,
\* the visible orders and the criteria unchanged.
C18_FailureStep ==
    (\E r \in Ids :
        \/ pc[r] = "pending" /\ pc'[r] = "rejected"
        \/ pc[r] = "rejected" /\ pc'[r] = "done")
    => /\ orders' = orders
       /\ filteredOrders' = filteredOrders
       /\ totalRevenue' = totalRevenue
       /\ << search, statusFilter, minTotal >>' = << search, statusFilter, minTotal >>

C18_FailureKeepsOrders == [][C18_FailureStep]_vars

\* C18 witness: a load failed after a successful one, and the list of the
\* successful load is still held.
C18_FailedWithOrders ==
    /\ lastSettled.kind = "reject"
    /\ error = FailedMessage
    /\ orders # <<>>
    /\ filteredOrders # <<>>
    /\ InFlight = {}

\* C20: a call of refresh() is made only when no request is unresolved.
C20_RefreshStep ==
    refreshCalls' # refreshCalls => \A r \in Ids : pc[r] # "pending"

C20_RefreshOnlyWhenNoneUnresolved == [][C20_RefreshStep]_vars

------------------------------------------------------------------------------
(* The store left to itself: no call of refresh(), every response a list of
   orders, every request answered.  A request that is finished leaves its
   slot to the next request, and issued stops counting at MaxRequests, so
   that a run can go on without end. *)

\* fetchOrders, with the new request in the first free slot.
fetchOrdersRepeated ==
    /\ \E r \in Ids :
        /\ pc[r] \in {"unissued", "done"}
        /\ \A q \in 1..(r - 1) : pc[q] \notin {"unissued", "done"}
        /\ pc' = [pc EXCEPT ![r] = "pending"]
    /\ issued' = IF issued < MaxRequests THEN issued + 1 ELSE issued
    /\ loading' = TRUE

\* The effect with dependencies [orders.length].
useEffectRepeated ==
    /\ ~crashed
    /\ effectPending
    /\ fetchOrdersRepeated
    /\ effectPending' = FALSE
    /\ UNCHANGED << orders, error, search, statusFilter, minTotal, filteredOrders,
                    totalRevenue, refreshCalls, diag, crashed, lastSettled, newestSettled >>

NextLoop ==
    \/ useEffectRepeated
    \/ \E r \in Ids : ThenCallback(r)
    \/ \E r \in Ids : FinallyCallback(r)

\* The effect runs after the render that asked for it; the callbacks of an
\* answered request run.
FairLoop ==
    /\ WF_vars(useEffectRepeated)
    /\ \A r \in Ids : WF_vars(ThenCallback(r))
    /\ \A r \in Ids : WF_vars(FinallyCallback(r))

SpecLoop == Init /\ [][NextLoop]_vars /\ FairLoop

\* C19: without calls of refresh() and with every request answered, the
\* store reaches a state with no request in flight and loading false, and
\* stays there.
C19_Quiesces == <>[](InFlight = {} /\ ~loading /\ ~effectPending)

====
